---- MODULE Spec2Model ----
(***************************************************************************)
(* postlogd(8), the Postfix internal log server                            *)
(* (src/postfix/src/postlogd/postlogd.c), as a state machine of one        *)
(* postlogd process: start-up (pre_jail_init, post_jail_init), the         *)
(* one-request-at-a-time datagram service loop with its watchdog and idle  *)
(* timer, the per-record routing of postlogd_service, and the process's    *)
(* own diagnostics (msg_logger with the postlogd_fallback writer).         *)
(*                                                                         *)
(* The server skeleton (dgram_server_main), logwriter, msg_logger and      *)
(* syslog are libraries outside postlogd.c; they are modelled at their     *)
(* interface.                                                              *)
(***************************************************************************)
EXTENDS Integers, Sequences, FiniteSets, TLC

(***************************************************************************)
(* Bounds of the model.                                                    *)
(***************************************************************************)
\* The histories (dispatched, writes, file, syslog_calls) observe the first
\* MaxRecords requests; later requests are served but not recorded.
MaxRecords == 2
\* Number of diagnostics of its own that the process emits.
MaxDiag == 1
\* Idle time (in ticks) after which the skeleton ends the process.
IdleLimit == 2
\* The skeleton's request-count limit before post_jail_init changes it.
UseLimitDefault == 2

(***************************************************************************)
(* Program constants.                                                      *)
(***************************************************************************)
\* main(): time_table default and lower bound of postlogd_watchdog_timeout.
DEF_POSTLOGD_WATCHDOG == 10

\* Values main.cf may give postlogd_watchdog_timeout (the table's minimum
\* is 10, there is no maximum).
WatchdogChoices == {DEF_POSTLOGD_WATCHDOG, DEF_POSTLOGD_WATCHDOG + 5}

\* Time is observed in steps of so many seconds.
TickSteps == {5}

\* Values of maillog_file: empty, a file that may be opened, a file in a
\* directory that does not exist.
Paths == {"", "/var/log/app.log", "/no/such/dir/app.log"}

\* Whether the file system lets logwriter_open open the path.
CanOpen(path) == path = "/var/log/app.log"

\* Records are opaque byte strings with an explicit length; a datagram may
\* hold any byte, NUL included.  "A", "BB", "X\0Y".
Records == {<<65>>, <<66, 66>>, <<88, 0, 89>>}

\* Command lines: no positional argument, or one.
ArgvChoices == {<<>>, <<"extra">>}

\* The text of a diagnostic of the process itself (a C string).
DiagText == <<100>>

\* syslog priority LOG_MAIL | LOG_INFO, as the set of its or-ed parts.
LOG_MAIL_INFO == {"LOG_MAIL", "LOG_INFO"}

VARIABLES
    argv,                  \* positional command-line arguments
    main_cf,               \* maillog_file as main.cf on disk has it now
    var_maillog_file,      \* maillog_file as this process read it at start
    var_postlogd_watchdog, \* postlogd_watchdog_timeout as read at start
    var_use_limit,         \* the skeleton's request-count limit
    postlogd_stream,       \* 0 (no stream) or the handle of the open logfile
    open_calls,            \* number of logwriter_open calls made
    fallback_only,         \* msg_logger: use only the fallback function
    fallback_fn,           \* msg_logger: the registered fallback function
    pc,                    \* position of the process in main/the skeleton
    exit_reason,           \* why the process ended
    buf, len,              \* the request being processed
    cur_id,                \* its index in dispatched (0: not observed)
    elapsed,               \* ticks the current request has been processed
    idle,                  \* ticks without a request
    use_count,             \* requests served
    dispatched,            \* records handed to postlogd_service, in order
    writes,                \* logwriter_write calls made by postlogd_service
    file,                  \* what the logfile received, in order
    syslog_calls,          \* syslog messages produced
    socket_msgs,           \* diagnostics sent over the postlog socket
    fallback_calls,        \* postlogd_fallback calls, with the stream seen
    ndiag,                 \* number of diagnostics emitted
    own_delivered          \* how many of socket_msgs came back as requests

vars == <<argv, main_cf, var_maillog_file, var_postlogd_watchdog,
          var_use_limit, postlogd_stream, open_calls, fallback_only,
          fallback_fn, pc, exit_reason, buf, len, cur_id, elapsed, idle,
          use_count, dispatched, writes, file, syslog_calls, socket_msgs,
          fallback_calls, ndiag, own_delivered>>

config_vars == <<argv, var_maillog_file, var_postlogd_watchdog>>
request_vars == <<buf, len, cur_id, elapsed, own_delivered>>
history_vars == <<dispatched, writes, file, syslog_calls>>
diag_vars == <<socket_msgs, fallback_calls, ndiag>>
logger_vars == <<fallback_only, fallback_fn>>

Min(a, b) == IF a < b THEN a ELSE b

\* The first n bytes of b.
Take(b, n) == SubSeq(b, 1, Min(n, Len(b)))

\* strlen(3): the number of bytes before the first NUL.
strlen(b) ==
    IF \E i \in 1..Len(b) : b[i] = 0
    THEN (CHOOSE i \in 1..Len(b) :
              b[i] = 0 /\ \A j \in 1..(i - 1) : b[j] # 0) - 1
    ELSE Len(b)

\* printf "%.*s" with precision n: at most n bytes, ending at a NUL.
FormatPrecS(n, b) == Take(b, Min(n, strlen(b)))


\* The text of the fatal message of a failed start (a C string).
FatalText == <<102>>

(***************************************************************************)
(* Libraries, at their interface.                                          *)
(***************************************************************************)
\* logwriter_write(stream, bytes, n): append the bytes to the logfile, or
\* fail and append nothing.  The value is the logfile afterwards.
logwriter_write(f, entry, ok) == IF ok THEN Append(f, entry) ELSE f

\* A history that observes the request numbered id (0: not observed).
Observe(h, id, entry) == IF id # 0 THEN Append(h, entry) ELSE h

(***************************************************************************)
(* postlogd.c                                                              *)
(***************************************************************************)
\* Mutant: the skeleton is given the generic daemon timeout, which is longer.
watchdog_timeout_daemon == var_postlogd_watchdog + 2 * DEF_POSTLOGD_WATCHDOG

\* main(): CA_MAIL_SERVER_WATCHDOG(&var_postlogd_watchdog), the time limit
\* the skeleton's watchdog enforces.
watchdog_timeout == var_postlogd_watchdog

\* Mutant: the sanity check of the command line is missing.
argv_unexpected_skipped(av) == FALSE

\* pre_jail_init: if (argv[0])
argv_unexpected(av) == Len(av) > 0

\* pre_jail_init: if (*var_maillog_file != 0)
maillog_configured(path) == path # ""

\* Mutant: the service looks at the current main.cf setting as well as at
\* the stream.
service_uses_stream_if_configured(stream) ==
    stream # 0 /\ maillog_configured(main_cf)

\* postlogd_service: if (postlogd_stream)
service_uses_stream(stream) == stream # 0

\* Mutant: the record is written as a C string, strlen(buf) bytes of it.
service_write_arg_cstring(b, n) == Take(b, strlen(b))

\* postlogd_service: the bytes of logwriter_write(postlogd_stream, buf, len)
service_write_arg(b, n) == Take(b, n)

\* Mutant: the start of the preformatted record is stripped before it is
\* forwarded to syslog.
service_syslog_msg_stripped(b, n) ==
    IF Len(b) > 0 THEN FormatPrecS(n - 1, Tail(b)) ELSE b

\* postlogd_service: the message of syslog(.., "%.*s", (int) len, buf)
service_syslog_msg(b, n) == FormatPrecS(n, b)

\* Mutant: the fallback function logs with msg_info, over the postlog socket.
postlogd_fallback_via_socket(msg, ok) ==
    /\ fallback_calls' = Append(fallback_calls, postlogd_stream)
    /\ socket_msgs' = Append(socket_msgs, msg)
    /\ UNCHANGED file

\* postlogd_fallback(buf): (void) logwriter_write(postlogd_stream, buf,
\* strlen(buf)); the result is discarded.
postlogd_fallback(msg, ok) ==
    /\ fallback_calls' = Append(fallback_calls, postlogd_stream)
    /\ file' = IF postlogd_stream # 0
               THEN logwriter_write(file, [kind |-> "diag", id |-> 0,
                                           bytes |-> Take(msg, strlen(msg))],
                                    ok)
               ELSE file
    /\ UNCHANGED socket_msgs

\* msg_logger: a diagnostic of this process goes to the registered fallback
\* function when fallback-only is set, and over the postlog socket otherwise.
msg_logger_emit(msg, ok) ==
    IF fallback_only
    THEN postlogd_fallback(msg, ok)
    ELSE /\ socket_msgs' = Append(socket_msgs, msg)
         /\ UNCHANGED <<file, fallback_calls>>

\* msg_fatal: log the message and end the process.
msg_fatal(reason) ==
    /\ msg_logger_emit(FatalText, TRUE)
    /\ pc' = "TERMINATED"
    /\ exit_reason' = reason

\* Mutant: the "else" is missing, a record written to the logfile is sent to
\* syslog as well.
service_route_both(ok) ==
    /\ syslog_calls' = Observe(syslog_calls, cur_id,
                          [id |-> cur_id, pri |-> LOG_MAIL_INFO,
                           msg |-> service_syslog_msg(buf, len)])
    /\ IF service_uses_stream(postlogd_stream)
       THEN /\ writes' = Observe(writes, cur_id,
                              [id |-> cur_id,
                               bytes |-> service_write_arg(buf, len),
                               ok |-> ok])
            /\ file' = IF cur_id # 0
                       THEN logwriter_write(file,
                                [kind |-> "record", id |-> cur_id,
                                 bytes |-> service_write_arg(buf, len)], ok)
                       ELSE file
       ELSE UNCHANGED <<writes, file>>

\* Mutant: a record whose append failed is sent to syslog instead.
service_route_failover(ok) ==
    IF service_uses_stream(postlogd_stream)
    THEN /\ writes' = Observe(writes, cur_id,
                              [id |-> cur_id,
                               bytes |-> service_write_arg(buf, len),
                               ok |-> ok])
         /\ file' = IF cur_id # 0
                    THEN logwriter_write(file,
                             [kind |-> "record", id |-> cur_id,
                              bytes |-> service_write_arg(buf, len)], ok)
                    ELSE file
         /\ syslog_calls' = IF ok THEN syslog_calls
                            ELSE Observe(syslog_calls, cur_id,
                                   [id |-> cur_id, pri |-> LOG_MAIL_INFO,
                                    msg |-> service_syslog_msg(buf, len)])
    ELSE /\ syslog_calls' = Observe(syslog_calls, cur_id,
                              [id |-> cur_id, pri |-> LOG_MAIL_INFO,
                               msg |-> service_syslog_msg(buf, len)])
         /\ UNCHANGED <<writes, file>>

\* postlogd_service, lines 137-142: the record goes to the logfile when
\* there is a stream, to syslog otherwise.
service_route(ok) ==
    IF service_uses_stream(postlogd_stream)
    THEN /\ writes' = Observe(writes, cur_id,
                              [id |-> cur_id,
                               bytes |-> service_write_arg(buf, len),
                               ok |-> ok])
         /\ file' = IF cur_id # 0
                    THEN logwriter_write(file,
                             [kind |-> "record", id |-> cur_id,
                              bytes |-> service_write_arg(buf, len)], ok)
                    ELSE file
         /\ UNCHANGED syslog_calls
    ELSE /\ syslog_calls' = Observe(syslog_calls, cur_id,
                              [id |-> cur_id, pri |-> LOG_MAIL_INFO,
                               msg |-> service_syslog_msg(buf, len)])
         /\ UNCHANGED <<writes, file>>

\* Mutant: the result of the write is checked and a failure is fatal.
service_returns_checked(ok) == ~service_uses_stream(postlogd_stream) \/ ok

\* postlogd_service: "(void) logwriter_write(..)" discards the result of the
\* write, so the function returns to the skeleton whatever the result.
service_returns(ok) == TRUE

\* Mutant: the service follows main.cf and opens the logfile when a request
\* finds the setting changed.
postlogd_service_reopen(ok) ==
    /\ service_route(ok)
    /\ IF main_cf # var_maillog_file /\ maillog_configured(main_cf)
       THEN postlogd_stream' = postlogd_stream + 1
            /\ open_calls' = open_calls + 1
       ELSE UNCHANGED <<postlogd_stream, open_calls>>

\* postlogd_service(buf, len): route the record; the stream is only read.
postlogd_service(ok) ==
    /\ service_route(ok)
    /\ UNCHANGED <<postlogd_stream, open_calls>>

\* Mutant: a logfile that cannot be opened leaves the stream unset and the
\* process starts all the same.
pre_jail_init_soft_open ==
    /\ pc = "pre_jail_init"
    /\ IF argv_unexpected(argv)
       THEN /\ msg_fatal("fatal_argv")
            /\ UNCHANGED <<postlogd_stream, open_calls, logger_vars>>
       ELSE IF maillog_configured(var_maillog_file)
       THEN /\ open_calls' = open_calls + 1
            /\ postlogd_stream' = IF CanOpen(var_maillog_file) THEN 1 ELSE 0
            /\ fallback_only' = CanOpen(var_maillog_file)
            /\ fallback_fn' = IF CanOpen(var_maillog_file)
                              THEN "postlogd_fallback" ELSE fallback_fn
            /\ pc' = "post_jail_init"
            /\ UNCHANGED <<exit_reason, file, socket_msgs, fallback_calls>>
       ELSE /\ pc' = "post_jail_init"
            /\ UNCHANGED <<postlogd_stream, open_calls, logger_vars,
                           exit_reason, file, socket_msgs, fallback_calls>>
    /\ UNCHANGED <<config_vars, main_cf, var_use_limit, request_vars, idle,
                   use_count, dispatched, writes, syslog_calls, ndiag>>

\* Mutant: an unexpected argument is logged with a warning and the function
\* returns, instead of ending the process.
pre_jail_init_warn_only ==
    /\ pc = "pre_jail_init"
    /\ IF argv_unexpected(argv)
       THEN /\ msg_logger_emit(FatalText, TRUE)
            /\ pc' = "post_jail_init"
            /\ UNCHANGED <<postlogd_stream, open_calls, logger_vars,
                           exit_reason>>
       ELSE IF maillog_configured(var_maillog_file)
       THEN /\ open_calls' = open_calls + 1
            /\ IF CanOpen(var_maillog_file)
               THEN /\ postlogd_stream' = 1
                    /\ fallback_only' = TRUE
                    /\ fallback_fn' = "postlogd_fallback"
                    /\ pc' = "post_jail_init"
                    /\ UNCHANGED <<exit_reason, file, socket_msgs,
                                   fallback_calls>>
               ELSE /\ msg_fatal("fatal_open")
                    /\ UNCHANGED <<postlogd_stream, logger_vars>>
       ELSE /\ pc' = "post_jail_init"
            /\ UNCHANGED <<postlogd_stream, open_calls, logger_vars,
                           exit_reason, file, socket_msgs, fallback_calls>>
    /\ UNCHANGED <<config_vars, main_cf, var_use_limit, request_vars, idle,
                   use_count, dispatched, writes, syslog_calls, ndiag>>

\* Mutant: msg_logger_control is called after the "if", also when no logfile
\* is configured.
pre_jail_init_always_redirect ==
    /\ pc = "pre_jail_init"
    /\ IF argv_unexpected(argv)
       THEN /\ msg_fatal("fatal_argv")
            /\ UNCHANGED <<postlogd_stream, open_calls, logger_vars>>
       ELSE IF maillog_configured(var_maillog_file)
       THEN /\ open_calls' = open_calls + 1
            /\ IF CanOpen(var_maillog_file)
               THEN /\ postlogd_stream' = 1
                    /\ fallback_only' = TRUE
                    /\ fallback_fn' = "postlogd_fallback"
                    /\ pc' = "post_jail_init"
                    /\ UNCHANGED <<exit_reason, file, socket_msgs,
                                   fallback_calls>>
               ELSE /\ msg_fatal("fatal_open")
                    /\ UNCHANGED <<postlogd_stream, logger_vars>>
       ELSE /\ pc' = "post_jail_init"
            /\ fallback_only' = TRUE
            /\ fallback_fn' = "postlogd_fallback"
            /\ UNCHANGED <<postlogd_stream, open_calls, exit_reason, file,
                           socket_msgs, fallback_calls>>
    /\ UNCHANGED <<config_vars, main_cf, var_use_limit, request_vars, idle,
                   use_count, dispatched, writes, syslog_calls, ndiag>>

\* Mutant: msg_logger_control is called before logwriter_open, so the fatal
\* message of a failed open goes to postlogd_fallback with no stream.
pre_jail_init_redirect_first ==
    /\ pc = "pre_jail_init"
    /\ IF argv_unexpected(argv)
       THEN /\ msg_fatal("fatal_argv")
            /\ UNCHANGED <<postlogd_stream, open_calls, logger_vars>>
       ELSE IF maillog_configured(var_maillog_file)
       THEN /\ open_calls' = open_calls + 1
            /\ fallback_only' = TRUE
            /\ fallback_fn' = "postlogd_fallback"
            /\ IF CanOpen(var_maillog_file)
               THEN /\ postlogd_stream' = 1
                    /\ pc' = "post_jail_init"
                    /\ UNCHANGED <<exit_reason, file, socket_msgs,
                                   fallback_calls>>
               ELSE /\ postlogd_fallback(FatalText, TRUE)
                    /\ pc' = "TERMINATED"
                    /\ exit_reason' = "fatal_open"
                    /\ UNCHANGED postlogd_stream
       ELSE /\ pc' = "post_jail_init"
            /\ UNCHANGED <<postlogd_stream, open_calls, logger_vars,
                           exit_reason, file, socket_msgs, fallback_calls>>
    /\ UNCHANGED <<config_vars, main_cf, var_use_limit, request_vars, idle,
                   use_count, dispatched, writes, syslog_calls, ndiag>>

\* Mutant: the command line is checked at the end of the function, after the
\* logfile was opened and the diagnostics were redirected.
pre_jail_init_check_last ==
    /\ pc = "pre_jail_init"
    /\ IF maillog_configured(var_maillog_file)
       THEN /\ open_calls' = open_calls + 1
            /\ IF CanOpen(var_maillog_file)
               THEN /\ postlogd_stream' = 1
                    /\ fallback_only' = TRUE
                    /\ fallback_fn' = "postlogd_fallback"
                    /\ IF argv_unexpected(argv)
                       THEN /\ fallback_calls' = Append(fallback_calls, 1)
                            /\ file' = Append(file, [kind |-> "diag",
                                          id |-> 0, bytes |-> FatalText])
                            /\ pc' = "TERMINATED"
                            /\ exit_reason' = "fatal_argv"
                            /\ UNCHANGED socket_msgs
                       ELSE /\ pc' = "post_jail_init"
                            /\ UNCHANGED <<exit_reason, file, socket_msgs,
                                           fallback_calls>>
               ELSE /\ msg_fatal("fatal_open")
                    /\ UNCHANGED <<postlogd_stream, logger_vars>>
       ELSE /\ IF argv_unexpected(argv)
               THEN msg_fatal("fatal_argv")
               ELSE /\ pc' = "post_jail_init"
                    /\ UNCHANGED <<exit_reason, file, socket_msgs,
                                   fallback_calls>>
            /\ UNCHANGED <<postlogd_stream, open_calls, logger_vars>>
    /\ UNCHANGED <<config_vars, main_cf, var_use_limit, request_vars, idle,
                   use_count, dispatched, writes, syslog_calls, ndiag>>

\* pre_jail_init(service_name, argv)
pre_jail_init ==
    /\ pc = "pre_jail_init"
    /\ IF argv_unexpected(argv)
       THEN /\ msg_fatal("fatal_argv")
            /\ UNCHANGED <<postlogd_stream, open_calls, logger_vars>>
       ELSE IF maillog_configured(var_maillog_file)
       THEN /\ open_calls' = open_calls + 1
            /\ IF CanOpen(var_maillog_file)
               THEN /\ postlogd_stream' = 1
                    /\ fallback_only' = TRUE
                    /\ fallback_fn' = "postlogd_fallback"
                    /\ pc' = "post_jail_init"
                    /\ UNCHANGED <<exit_reason, file, socket_msgs,
                                   fallback_calls>>
               ELSE \* logwriter_open: "or bust"
                    /\ msg_fatal("fatal_open")
                    /\ UNCHANGED <<postlogd_stream, logger_vars>>
       ELSE /\ pc' = "post_jail_init"
            /\ UNCHANGED <<postlogd_stream, open_calls, logger_vars,
                           exit_reason, file, socket_msgs, fallback_calls>>
    /\ UNCHANGED <<config_vars, main_cf, var_use_limit, request_vars, idle,
                   use_count, dispatched, writes, syslog_calls, ndiag>>

\* Mutant: the request-count limit is left as the skeleton set it.
post_jail_init_keep_limit ==
    /\ pc = "post_jail_init"
    /\ pc' = "ACCEPTING"
    /\ UNCHANGED <<config_vars, main_cf, var_use_limit, postlogd_stream,
                   open_calls, logger_vars, exit_reason, request_vars, idle,
                   use_count, history_vars, diag_vars>>

\* post_jail_init(): var_use_limit = 0
post_jail_init ==
    /\ pc = "post_jail_init"
    /\ var_use_limit' = 0
    /\ pc' = "ACCEPTING"
    /\ UNCHANGED <<config_vars, main_cf, postlogd_stream, open_calls,
                   logger_vars, exit_reason, request_vars, idle, use_count,
                   history_vars, diag_vars>>

(***************************************************************************)
(* The server skeleton (dgram_server_main) and the environment.            *)
(***************************************************************************)
\* Mutant: the skeleton takes the next datagram while a request is still
\* being processed.
Dispatch_reentrant(r) ==
    /\ pc \in {"ACCEPTING", "PROCESSING"}
    /\ pc' = "PROCESSING"
    /\ buf' = r
    /\ len' = Len(r)
    /\ elapsed' = 0
    /\ idle' = 0
    /\ IF Len(dispatched) < MaxRecords
       THEN /\ dispatched' = Append(dispatched, r)
            /\ cur_id' = Len(dispatched) + 1
       ELSE /\ dispatched' = dispatched
            /\ cur_id' = 0
    /\ UNCHANGED <<config_vars, main_cf, var_use_limit, postlogd_stream,
                   open_calls, logger_vars, exit_reason, use_count, writes,
                   file, syslog_calls, diag_vars, own_delivered>>

\* A datagram arrives and the skeleton hands it to postlogd_service.
Dispatch(r) ==
    /\ pc = "ACCEPTING"
    /\ pc' = "PROCESSING"
    /\ buf' = r
    /\ len' = Len(r)
    /\ elapsed' = 0
    /\ idle' = 0
    /\ IF Len(dispatched) < MaxRecords
       THEN /\ dispatched' = Append(dispatched, r)
            /\ cur_id' = Len(dispatched) + 1
       ELSE /\ dispatched' = dispatched
            /\ cur_id' = 0
    /\ UNCHANGED <<config_vars, main_cf, var_use_limit, postlogd_stream,
                   open_calls, logger_vars, exit_reason, use_count, writes,
                   file, syslog_calls, diag_vars, own_delivered>>

\* A diagnostic that this process sent over the postlog socket arrives as a
\* datagram, this process being the one that serves the socket.
DispatchOwn ==
    /\ pc = "ACCEPTING"
    /\ own_delivered < Len(socket_msgs)
    /\ own_delivered' = own_delivered + 1
    /\ pc' = "PROCESSING"
    /\ buf' = socket_msgs[own_delivered + 1]
    /\ len' = Len(socket_msgs[own_delivered + 1])
    /\ elapsed' = 0
    /\ idle' = 0
    /\ IF Len(dispatched) < MaxRecords
       THEN /\ dispatched' = Append(dispatched, socket_msgs[own_delivered + 1])
            /\ cur_id' = Len(dispatched) + 1
       ELSE /\ dispatched' = dispatched
            /\ cur_id' = 0
    /\ UNCHANGED <<config_vars, main_cf, var_use_limit, postlogd_stream,
                   open_calls, logger_vars, exit_reason, use_count, writes,
                   file, syslog_calls, diag_vars>>

\* postlogd_service runs and returns; the skeleton counts the request and
\* ends the process when the request-count limit is set and reached.
ServiceRequest ==
    /\ pc = "PROCESSING"
    /\ elapsed <= watchdog_timeout
    /\ use_count' = Min(use_count + 1, UseLimitDefault)
    /\ \E ok \in BOOLEAN :
          /\ postlogd_service(ok)
          /\ IF ~service_returns(ok)
             THEN pc' = "TERMINATED" /\ exit_reason' = "fatal_write"
             ELSE IF var_use_limit > 0 /\ use_count' >= var_use_limit
             THEN pc' = "TERMINATED" /\ exit_reason' = "use_limit"
             ELSE pc' = "ACCEPTING" /\ exit_reason' = exit_reason
    /\ buf' = <<>>
    /\ len' = 0
    /\ cur_id' = 0
    /\ elapsed' = 0
    /\ idle' = 0
    /\ UNCHANGED <<config_vars, main_cf, var_use_limit, logger_vars,
                   dispatched, diag_vars, own_delivered>>

\* Time passes while the request is being processed (a stalled write).
Tick(d) ==
    /\ pc = "PROCESSING"
    /\ elapsed <= watchdog_timeout
    /\ elapsed' = elapsed + d
    /\ UNCHANGED <<config_vars, main_cf, var_use_limit, postlogd_stream,
                   open_calls, logger_vars, pc, exit_reason, buf, len,
                   cur_id, idle, use_count, history_vars, diag_vars,
                   own_delivered>>

\* The watchdog ends a process whose request took longer than the limit.
WatchdogExpire ==
    /\ pc = "PROCESSING"
    /\ elapsed > watchdog_timeout
    /\ pc' = "TERMINATED"
    /\ exit_reason' = "watchdog"
    /\ UNCHANGED <<config_vars, main_cf, var_use_limit, postlogd_stream,
                   open_calls, logger_vars, request_vars, idle, use_count,
                   history_vars, diag_vars>>

\* Time passes without a request.
IdleTick ==
    /\ pc = "ACCEPTING"
    /\ idle < IdleLimit
    /\ idle' = idle + 1
    /\ UNCHANGED <<config_vars, main_cf, var_use_limit, postlogd_stream,
                   open_calls, logger_vars, pc, exit_reason, request_vars,
                   use_count, history_vars, diag_vars>>

\* The skeleton ends a process that was idle for the idle limit.
IdleExit ==
    /\ pc = "ACCEPTING"
    /\ idle >= IdleLimit
    /\ pc' = "TERMINATED"
    /\ exit_reason' = "idle"
    /\ UNCHANGED <<config_vars, main_cf, var_use_limit, postlogd_stream,
                   open_calls, logger_vars, request_vars, idle, use_count,
                   history_vars, diag_vars>>

\* The master stops the process ("postfix reload", "postfix stop").
ExternalStop ==
    /\ pc \in {"ACCEPTING", "PROCESSING"}
    /\ pc' = "TERMINATED"
    /\ exit_reason' = "signal"
    /\ UNCHANGED <<config_vars, main_cf, var_use_limit, postlogd_stream,
                   open_calls, logger_vars, request_vars, idle, use_count,
                   history_vars, diag_vars>>

\* main.cf is edited while the process runs; nothing tells the process.
ConfigChange(p) ==
    /\ pc \in {"ACCEPTING", "PROCESSING"}
    /\ p # main_cf
    /\ main_cf' = p
    /\ UNCHANGED <<config_vars, var_use_limit, postlogd_stream, open_calls,
                   logger_vars, pc, exit_reason, request_vars, idle,
                   use_count, history_vars, diag_vars>>

\* The process logs a message of its own (msg_info, msg_warn).
EmitDiagnostic ==
    /\ pc # "TERMINATED"
    /\ ndiag < MaxDiag
    /\ ndiag' = ndiag + 1
    /\ \E ok \in BOOLEAN : msg_logger_emit(DiagText, ok)
    /\ UNCHANGED <<config_vars, main_cf, var_use_limit, postlogd_stream,
                   open_calls, logger_vars, pc, exit_reason, request_vars,
                   idle, use_count, dispatched, writes, syslog_calls>>

Init ==
    /\ argv \in ArgvChoices
    /\ var_maillog_file \in Paths
    /\ main_cf = var_maillog_file
    /\ var_postlogd_watchdog \in WatchdogChoices
    /\ var_use_limit = UseLimitDefault
    /\ postlogd_stream = 0
    /\ open_calls = 0
    /\ fallback_only = FALSE
    /\ fallback_fn = "none"
    /\ pc = "pre_jail_init"
    /\ exit_reason = "none"
    /\ buf = <<>>
    /\ len = 0
    /\ cur_id = 0
    /\ elapsed = 0
    /\ idle = 0
    /\ use_count = 0
    /\ dispatched = <<>>
    /\ writes = <<>>
    /\ file = <<>>
    /\ syslog_calls = <<>>
    /\ socket_msgs = <<>>
    /\ fallback_calls = <<>>
    /\ ndiag = 0
    /\ own_delivered = 0

Next ==
    \/ pre_jail_init
    \/ post_jail_init
    \/ \E r \in Records : Dispatch(r)
    \/ DispatchOwn
    \/ ServiceRequest
    \/ \E d \in TickSteps : Tick(d)
    \/ WatchdogExpire
    \/ IdleTick
    \/ IdleExit
    \/ ExternalStop
    \/ \E p \in Paths : ConfigChange(p)
    \/ EmitDiagnostic

Spec == Init /\ [][Next]_vars

\* The process takes its steps and time passes while it waits: start-up
\* completes, a request being processed returns or is ended by the watchdog,
\* the idle timer runs and expires.  Request arrival is up to the clients.
Fairness ==
    /\ WF_vars(pre_jail_init)
    /\ WF_vars(post_jail_init)
    /\ WF_vars(ServiceRequest)
    /\ WF_vars(WatchdogExpire)
    /\ WF_vars(IdleTick)
    /\ WF_vars(IdleExit)

FairSpec == Init /\ [][Next]_vars /\ Fairness

(***************************************************************************)
(* Properties.                                                             *)
(***************************************************************************)
\* The record of the request being processed, or whose processing was cut
\* short by the end of the process, is observed and not yet routed.
InFlight == IF cur_id # 0 THEN 1 ELSE 0

\* The record entries of the logfile, in order.
IsRecordEntry(e) == e.kind = "record"
FileRecords == SelectSeq(file, IsRecordEntry)

\* The writes that succeeded, in order.
WriteOk(w) == w.ok
WritesOk == SelectSeq(writes, WriteOk)

\* C1: with a non-empty destination opened at start-up, the logwriter_write
\* calls of postlogd_service are the dispatched records: the i-th call
\* carries the i-th dispatched record, all its bytes and its length; every
\* record whose invocation has returned has exactly one call, the record in
\* processing has none yet; and the logfile holds the records of the
\* successful calls in that order, each once and whole.
C1_AppendInDispatchOrder ==
    postlogd_stream # 0 =>
        /\ Len(writes) = Len(dispatched) - InFlight
        /\ \A i \in 1..Len(writes) :
              /\ writes[i].id = i
              /\ writes[i].bytes = dispatched[i]
              /\ Len(writes[i].bytes) = Len(dispatched[i])
        /\ Len(FileRecords) = Len(WritesOk)
        /\ \A k \in 1..Len(FileRecords) :
              /\ FileRecords[k].id = WritesOk[k].id
              /\ FileRecords[k].bytes = dispatched[WritesOk[k].id]

\* Two records, the second with an embedded NUL, dispatched and appended.
C1_Witness ==
    /\ postlogd_stream # 0
    /\ pc = "ACCEPTING"
    /\ dispatched = <<<<65>>, <<88, 0, 89>>>>
    /\ Len(writes) = 2
    /\ Len(FileRecords) = 2
    /\ FileRecords[2].bytes = <<88, 0, 89>>

\* C2: with an empty destination every dispatched record gives exactly one
\* syslog message, which is the record unmodified, at priority
\* LOG_MAIL|LOG_INFO, and the logfile is never opened.
C2_EmptyDestinationSyslogsUnmodified ==
    var_maillog_file = "" =>
        /\ open_calls = 0
        /\ postlogd_stream = 0
        /\ Len(syslog_calls) = Len(dispatched) - InFlight
        /\ \A i \in 1..Len(syslog_calls) :
              /\ syslog_calls[i].id = i
              /\ syslog_calls[i].pri = LOG_MAIL_INFO
              /\ syslog_calls[i].msg = dispatched[i]

\* C3: no dispatched record has been written both to the logfile and to
\* syslog.
C3_NeverBothSinks ==
    \A i \in 1..Len(dispatched) :
        ~ /\ \E w \in 1..Len(writes) : writes[w].id = i
          /\ \E c \in 1..Len(syslog_calls) : syslog_calls[c].id = i

\* Two records routed, both to syslog and none to the logfile.
C3_Witness ==
    /\ pc = "ACCEPTING"
    /\ Len(dispatched) = 2
    /\ Len(syslog_calls) = 2
    /\ writes = <<>>

\* C4: with a non-empty destination that cannot be opened the process ends
\* in pre_jail_init: it is never accepting or processing, no record is
\* dispatched to postlogd_service, and nothing goes to syslog.
C4_OpenFailureIsFatal ==
    (maillog_configured(var_maillog_file) /\ ~CanOpen(var_maillog_file)) =>
        /\ pc \in {"pre_jail_init", "TERMINATED"}
        /\ pc = "TERMINATED" => exit_reason \in {"fatal_open", "fatal_argv"}
        /\ postlogd_stream = 0
        /\ dispatched = <<>>
        /\ use_count = 0
        /\ writes = <<>>
        /\ syslog_calls = <<>>

\* The open was tried, failed, and ended the process.
C4_Witness ==
    /\ var_maillog_file = "/no/such/dir/app.log"
    /\ open_calls = 1
    /\ pc = "TERMINATED"
    /\ exit_reason = "fatal_open"

\* C5: started with a positional argument, the process ends in
\* pre_jail_init with a fatal error and postlogd_service is never invoked.
C5_ArgumentIsFatal ==
    Len(argv) > 0 =>
        /\ pc \in {"pre_jail_init", "TERMINATED"}
        /\ pc = "TERMINATED" => exit_reason = "fatal_argv"
        /\ dispatched = <<>>
        /\ use_count = 0
        /\ writes = <<>>
        /\ syslog_calls = <<>>

\* Ended by the fatal error, the message sent over the postlog socket.
C5_Witness ==
    /\ Len(argv) > 0
    /\ pc = "TERMINATED"
    /\ exit_reason = "fatal_argv"
    /\ \E i \in 1..Len(socket_msgs) : socket_msgs[i] = FatalText

\* A step in which postlogd_service makes an append that fails.
FailedAppendStep ==
    /\ Len(writes') = Len(writes) + 1
    /\ ~writes'[Len(writes')].ok

\* C6 as stated: a failed append of a dispatched record ends the process
\* instead of returning it to ACCEPTING.
C6_FailedAppendIsFatal == [][FailedAppendStep => pc' = "TERMINATED"]_vars

\* C6 as the code has it: the result of a failed append is discarded; the
\* process returns to ACCEPTING with the stream unchanged, the record is in
\* neither the logfile nor syslog, and nothing records the failure.
C6_FailedAppendIsDiscarded ==
    [][FailedAppendStep =>
          /\ pc' = "ACCEPTING"
          /\ exit_reason' = exit_reason
          /\ postlogd_stream' = postlogd_stream
          /\ file' = file
          /\ syslog_calls' = syslog_calls
          /\ socket_msgs' = socket_msgs]_vars

\* A failed append, after which the process is accepting and a later record
\* was appended.
C6_Witness ==
    /\ pc = "ACCEPTING"
    /\ Len(writes) = 2
    /\ ~writes[1].ok
    /\ writes[2].ok
    /\ Len(FileRecords) = 1
    /\ FileRecords[1].id = 2

\* C7: once msg_logger is set to fallback-only it stays so; from then on no
\* diagnostic of the process goes over the postlog socket, each one is a
\* call of postlogd_fallback with the logfile stream open.
C7_DirectWriteIsPermanent ==
    [][fallback_only =>
          /\ fallback_only'
          /\ fallback_fn' = "postlogd_fallback"
          /\ socket_msgs' = socket_msgs
          /\ ndiag' # ndiag =>
                /\ Len(fallback_calls') = Len(fallback_calls) + 1
                /\ fallback_calls'[Len(fallback_calls')] # 0]_vars

\* After the switch a diagnostic was written to the logfile by
\* postlogd_fallback, and none went over the socket.
C7_Witness ==
    /\ fallback_only
    /\ ndiag = 1
    /\ Len(fallback_calls) = 1
    /\ socket_msgs = <<>>
    /\ \E i \in 1..Len(file) : file[i].kind = "diag"

\* The request in processing has taken longer than the configured
\* postlogd_watchdog_timeout.
Overdue == pc = "PROCESSING" /\ elapsed > var_postlogd_watchdog

\* C8: a request that has been processed for longer than the configured
\* timeout cannot complete and the watchdog is ready to end the process;
\* the watchdog ends the process only for such a request, and every request
\* that completes did so within the timeout.
C8_WatchdogBoundsProcessing ==
    /\ [](Overdue => (ENABLED WatchdogExpire) /\ ~(ENABLED ServiceRequest))
    /\ [][(exit_reason' = "watchdog" /\ exit_reason # "watchdog")
             => Overdue]_vars
    /\ [][(pc = "PROCESSING" /\ pc' = "ACCEPTING")
             => elapsed <= var_postlogd_watchdog]_vars
    /\ [][Overdue => pc' \in {"PROCESSING", "TERMINATED"}]_vars

\* The watchdog ended a process configured with the default timeout.
C8_Witness ==
    /\ pc = "TERMINATED"
    /\ exit_reason = "watchdog"
    /\ var_postlogd_watchdog = DEF_POSTLOGD_WATCHDOG
    /\ elapsed > DEF_POSTLOGD_WATCHDOG

\* main.cf no longer has the maillog_file this process read at start.
ConfigStale == main_cf # var_maillog_file

\* C9: after any change of the configuration the running process
\* eventually ends (so that a new process reads the new configuration),
\* whatever the arrival of requests.
C9_ConfigChangeEndsProcess == ConfigStale ~> (pc = "TERMINATED" \/ ~ConfigStale)

\* C10: the logfile is opened at most once, and only in pre_jail_init:
\* after it no step changes postlogd_stream or opens a logfile.
C10_StreamSetOnlyAtStartup ==
    /\ [](open_calls <= 1)
    /\ [](pc = "pre_jail_init" => postlogd_stream = 0 /\ open_calls = 0)
    /\ [][pc # "pre_jail_init" =>
             /\ postlogd_stream' = postlogd_stream
             /\ open_calls' = open_calls]_vars

\* With the stream open, a record was appended, a diagnostic was written
\* and main.cf was changed to another logfile, the stream still the first.
C10_Witness ==
    /\ pc = "ACCEPTING"
    /\ postlogd_stream = 1
    /\ open_calls = 1
    /\ Len(writes) >= 1
    /\ ndiag >= 1
    /\ ConfigStale
    /\ maillog_configured(main_cf)

\* C11: all records of one process go to one sink, the one chosen at
\* start-up: the logfile when a stream was opened, syslog otherwise;
\* whatever the requests, failed appends and changes of main.cf.
C11_RoutingNeverSwitches ==
    /\ ~(writes # <<>> /\ syslog_calls # <<>>)
    /\ postlogd_stream # 0 => syslog_calls = <<>>
    /\ postlogd_stream = 0 => writes = <<>>
    /\ postlogd_stream # 0 <=>
          (pc # "pre_jail_init" /\ maillog_configured(var_maillog_file)
             /\ CanOpen(var_maillog_file) /\ ~argv_unexpected(argv))

\* main.cf lost its maillog_file and an append failed, and the next record
\* went to the logfile all the same.
C11_Witness ==
    /\ pc = "ACCEPTING"
    /\ postlogd_stream # 0
    /\ main_cf = ""
    /\ Len(writes) = 2
    /\ ~writes[1].ok
    /\ writes[2].ok
    /\ syslog_calls = <<>>

\* pre_jail_init has run and completed: the command line was accepted and a
\* configured logfile is open with the diagnostics redirected to it.
InitCompleted ==
    /\ pc # "pre_jail_init"
    /\ exit_reason \notin {"fatal_argv", "fatal_open"}
    /\ ~argv_unexpected(argv)
    /\ maillog_configured(var_maillog_file) =>
          postlogd_stream # 0 /\ fallback_only

\* C12: pre_jail_init runs once, the process never returns to it; and it
\* has completed, without a fatal error, in every state in which the
\* process accepts or processes a request or has done so.
C12_InitOnceBeforeService ==
    /\ [][pc # "pre_jail_init" => pc' # "pre_jail_init"]_vars
    /\ [][pc = "pre_jail_init" =>
             pc' \in {"pre_jail_init", "post_jail_init", "TERMINATED"}]_vars
    /\ []((pc \in {"ACCEPTING", "PROCESSING"} \/ dispatched # <<>>
             \/ use_count > 0) => InitCompleted)
    /\ [][pc' = "PROCESSING" => pc \in {"ACCEPTING", "PROCESSING"}]_vars

\* The first invocation of postlogd_service, after a completed start-up.
C12_Witness ==
    /\ pc = "PROCESSING"
    /\ Len(dispatched) = 1
    /\ use_count = 0
    /\ postlogd_stream # 0
    /\ InitCompleted

\* C13: after pre_jail_init, msg_logger is in fallback-only mode exactly
\* when the logfile stream is open: an empty maillog_file leaves the mode
\* and the stream unset and no function registered, a successful open sets
\* the stream and the mode and registers postlogd_fallback.
C13_RedirectIffStreamOpen ==
    pc # "pre_jail_init" =>
        /\ fallback_only <=> postlogd_stream # 0
        /\ fallback_only <=> fallback_fn = "postlogd_fallback"
        /\ ~maillog_configured(var_maillog_file) =>
              /\ ~fallback_only
              /\ postlogd_stream = 0
              /\ fallback_fn = "none"
        /\ (maillog_configured(var_maillog_file) /\ CanOpen(var_maillog_file)
              /\ ~argv_unexpected(argv)) =>
              /\ fallback_only
              /\ postlogd_stream # 0
              /\ fallback_fn = "postlogd_fallback"

\* pre_jail_init has just returned from a successful open.
C13_Witness ==
    /\ pc = "post_jail_init"
    /\ postlogd_stream # 0
    /\ fallback_only
    /\ fallback_fn = "postlogd_fallback"

\* C14: the process never ends because of the number of requests served:
\* from post_jail_init on var_use_limit is 0, a request within its time
\* limit can always be completed, and the end after the idle time is still
\* there.
C14_NoRequestCountLimit ==
    /\ exit_reason # "use_limit"
    /\ pc \in {"ACCEPTING", "PROCESSING"} => var_use_limit = 0
    /\ (pc = "PROCESSING" /\ elapsed <= var_postlogd_watchdog) =>
          ENABLED ServiceRequest
    /\ pc = "ACCEPTING" => ENABLED (\E r \in Records : Dispatch(r))
    /\ (pc = "ACCEPTING" /\ idle >= IdleLimit) => ENABLED IdleExit

\* As many requests served as the skeleton's default limit and one more in
\* processing.
C14_Witness ==
    /\ pc = "PROCESSING"
    /\ use_count = UseLimitDefault
    /\ var_use_limit = 0
    /\ Len(dispatched) = MaxRecords

CallsFor(h, i) == Cardinality({k \in 1..Len(h) : h[k].id = i})

\* C16: a failed append is neither retried nor made up for: every
\* dispatched record whose invocation has returned had exactly one write
\* attempt, to one sink; and a record whose append failed is not in the
\* logfile and was not sent to syslog.
C16_FailedAppendNotRetried ==
    /\ \A i \in 1..Len(dispatched) :
          CallsFor(writes, i) + CallsFor(syslog_calls, i)
             = (IF i = cur_id THEN 0 ELSE 1)
    /\ \A w \in 1..Len(writes) :
          ~writes[w].ok =>
             /\ CallsFor(writes, writes[w].id) = 1
             /\ CallsFor(syslog_calls, writes[w].id) = 0
             /\ CallsFor(FileRecords, writes[w].id) = 0

\* The append of the first record failed and the second record is in
\* processing; nothing of the first is in the logfile or in syslog.
C16_Witness ==
    /\ pc = "PROCESSING"
    /\ cur_id = 2
    /\ Len(writes) = 1
    /\ ~writes[1].ok
    /\ FileRecords = <<>>
    /\ syslog_calls = <<>>

\* C18: postlogd_fallback is never called while postlogd_stream is unset:
\* the function is registered only with the stream open, and the fatal
\* message of a failed open does not go through it.
C18_FallbackHasStream ==
    /\ \A i \in 1..Len(fallback_calls) : fallback_calls[i] # 0
    /\ (fallback_only \/ fallback_fn = "postlogd_fallback") =>
          postlogd_stream # 0
    /\ exit_reason = "fatal_open" =>
          /\ fallback_calls = <<>>
          /\ ~fallback_only
          /\ socket_msgs # <<>>
          /\ socket_msgs[Len(socket_msgs)] = FatalText

\* A diagnostic was written by postlogd_fallback, to the open stream, and
\* the process then ended after its idle time.
C18_Witness ==
    /\ fallback_calls = <<1>>
    /\ postlogd_stream = 1
    /\ pc = "TERMINATED"
    /\ exit_reason = "idle"

\* C19: with a positional argument the process ends before any other
\* effect of pre_jail_init, whatever maillog_file is: no logfile opened, no
\* stream, msg_logger still on the postlog socket with no function
\* registered, nothing written to the logfile.
C19_ArgumentCheckComesFirst ==
    argv_unexpected(argv) =>
        /\ open_calls = 0
        /\ postlogd_stream = 0
        /\ ~fallback_only
        /\ fallback_fn = "none"
        /\ fallback_calls = <<>>
        /\ file = <<>>
        /\ pc \in {"pre_jail_init", "TERMINATED"}

\* Ended for the argument, with a logfile configured that could be opened.
C19_Witness ==
    /\ argv_unexpected(argv)
    /\ CanOpen(var_maillog_file)
    /\ pc = "TERMINATED"
    /\ exit_reason = "fatal_argv"
    /\ open_calls = 0

\* The dispatched record numbered i is a diagnostic of this process that
\* came back over the postlog socket, and its invocation has returned.
OwnRecordServed(i) == dispatched[i] = DiagText /\ i # cur_id

\* A step in which the process emits a diagnostic.
DiagnosticStep == ndiag' # ndiag

====
